---- MODULE Spec2Model ----
(***************************************************************************)
(* Appointment scheduling engine of the booking application:                *)
(*   server/routes/appointments.js   (Book, Accept, Cancel, Complete)       *)
(*   server/models/Appointment.js    (the Mongoose schema the routes load)  *)
(*   unnamed/part_000                (the other Appointment schema)         *)
(* Times are minutes since 00:00 UTC of day 0.                              *)
(***************************************************************************)
EXTENDS Integers, Sequences, FiniteSets, TLC

\* ------------------------------------------------------------------ bounds
MaxAppts == 2
NumProcs == 2

\* ------------------------------------------------------- program constants
WindowMinutes == 30
PatientCutoffHours == 24
DoctorCutoffHours == 1
MinutesPerHour == 60
MinutesPerDay == 1440

\* ----------------------------------------------------------------- inputs
Patients == {"p1", "p2"}
Doctors == {"d1", "d2"}
Users == Patients \cup Doctors
Admins == {"a1"}

\* decoded.role of the bearer token
RoleOf(u) ==
  IF u \in Patients THEN "patient" ELSE IF u \in Doctors THEN "doctor" ELSE "admin"

\* clock readings (new Date()) and requested slots (req.body.date)
\* day 2 starts at 2880; the readings are 25 h, 24 h, 23 h, 90 min, 60 min and
\* 30 min before it, that instant itself, and one hour after it
NowTimes == {1380, 1440, 1500, 2790, 2820, 2850, 2880, 2940}
ReqTimes == {2880, 2900, 2910, 3480}

\* no value (undefined)
Unset == 0 - 1
NoText == "-"
Purposes == {NoText}
Reasons == {NoText, "Busy"}
Texts == {NoText, "Rx"}

\* ---------------------------------------------------------------- schemas
SchemaServer == "server/models/Appointment.js"
SchemaPart000 == "unnamed/part_000"

\* status: { enum: [...] }
StatusEnum(s) ==
  IF s = SchemaServer
    THEN {"pending", "accepted", "rejected", "cancelled", "completed"}
    ELSE {"pending", "confirmed", "cancelled", "completed"}

\* a schema that also declares notes
SchemaPathsWithNotes(s) == {"patient", "doctor", "date", "purpose", "status", "notes"}

\* a schema that also declares the two cancellation paths
SchemaPathsWithCancellation(s) ==
  {"patient", "doctor", "date", "purpose", "status", "cancelledBy", "cancellationReason"}

\* the paths the schema declares; strict mode drops every other path on save
SchemaPaths(s) == {"patient", "doctor", "date", "purpose", "status"}

\* date: { set: toDateOnly }: setUTCHours(0, 0, 0, 0)
toDateOnly(t) == t - (t % MinutesPerDay)

DateSet(s, t) == IF s = SchemaServer THEN toDateOnly(t) ELSE t

\* date: { get: (val) => val.toISOString().split("T")[0] }: reading
\* appointment.date yields the string "YYYY-MM-DD" under the server schema and
\* the Date under the other one
DateGet(s, t) ==
  IF s = SchemaServer
    THEN [kind |-> "String", t |-> toDateOnly(t)]
    ELSE [kind |-> "Date", t |-> t]

JsDate(t) == [kind |-> "Date", t |-> t]

\* ------------------------------------------------------------- JavaScript
\* ToNumber: a Date is its time value, the string "YYYY-MM-DD" is NaN
NaN == [nan |-> TRUE, v |-> 0]
Num(n) == [nan |-> FALSE, v |-> n]
ToNumber(x) == IF x.kind = "Date" THEN Num(x.t) ELSE NaN

\* a - b
JsMinus(a, b) ==
  IF ToNumber(a).nan \/ ToNumber(b).nan THEN NaN
  ELSE Num(ToNumber(a).v - ToNumber(b).v)

\* x < n and x > n on numbers: false when either side is NaN
NumLt(x, n) == ~x.nan /\ x.v < n
JsLt(a, b) == ~ToNumber(a).nan /\ ~ToNumber(b).nan /\ ToNumber(a).v < ToNumber(b).v
JsGt(a, b) == ~ToNumber(a).nan /\ ~ToNumber(b).nan /\ ToNumber(a).v > ToNumber(b).v

\* date.getTime(): a TypeError when date is not a Date
HasGetTime(x) == x.kind = "Date"

\* ------------------------------------------------------------------ state
VARIABLES store, now, resp, schema, inflight
vars == <<store, now, resp, schema, inflight>>

Procs == 1..NumProcs

Ids == 1..Len(store)
ActiveStatuses == {"pending", "confirmed"}

\* the last response sent; par flips with every response
\* t and doctor are the requested time and doctorId of a Book, data is the
\* body's data of a Get-one
NoResp ==
  [op |-> "none", caller |-> NoText, id |-> 0, t |-> Unset, http |-> 0,
   code |-> NoText, par |-> 0, doctor |-> NoText, data |-> <<>>]

Reply(op, caller, id, t, http, code) ==
  [op |-> op, caller |-> caller, id |-> id, t |-> t, http |-> http, code |-> code,
   par |-> 1 - resp.par, doctor |-> NoText, data |-> <<>>]

\* the response to POST /
BookReply(u, doctorId, id, t, http, code) ==
  [Reply("book", u, id, t, http, code) EXCEPT !.doctor = doctorId]

\* Appointment.create: setters run, undeclared paths (notes) are dropped;
\* purpose || "General Consultation"
NewDoc(s, patient, doctor, t, purpose, notes) ==
  [patient |-> patient, doctor |-> doctor, date |-> DateSet(s, t),
   purpose |-> IF purpose = NoText THEN "General Consultation" ELSE purpose,
   status |-> "pending",
   notes |-> IF "notes" \in SchemaPaths(s) THEN notes ELSE NoText,
   prescription |-> NoText, cancelledBy |-> NoText,
   cancellationReason |-> NoText, completedAt |-> Unset]

\* ------------------------------------------------------ conflict detection
\* the filter of checkTimeSlotConflict without its status condition
ConflictMatchAnyStatus(st, i, doctorId, t, exceptId) ==
  /\ st[i].doctor = doctorId
  /\ st[i].date >= t - WindowMinutes
  /\ st[i].date <= t + WindowMinutes
  /\ i # exceptId

\* the filter of checkTimeSlotConflict; $gte/$lte operands are cast to Date
\* without the setter
ConflictMatch(st, i, doctorId, t, exceptId) ==
  /\ st[i].doctor = doctorId
  /\ st[i].date >= t - WindowMinutes
  /\ st[i].date <= t + WindowMinutes
  /\ st[i].status \in ActiveStatuses
  /\ i # exceptId

\* findOne: the first matching document, 0 for null
checkTimeSlotConflict(st, doctorId, t, exceptId) ==
  LET hits == {i \in 1..Len(st) : ConflictMatch(st, i, doctorId, t, exceptId)}
  IN IF hits = {} THEN 0 ELSE CHOOSE i \in hits : \A j \in hits : i <= j

\* --------------------------------------------------------------- document
\* a patch is what the handler assigned to the loaded document: set names the
\* modified paths
Patch(set, status, notes, prescription, cancelledBy, cancellationReason, completedAt) ==
  [set |-> set, status |-> status, notes |-> notes, prescription |-> prescription,
   cancelledBy |-> cancelledBy, cancellationReason |-> cancellationReason,
   completedAt |-> completedAt]

\* appointment.save() validates the modified paths against the schema: a
\* status outside the enum is a ValidationError
SaveValid(s, patch) == patch.status \in StatusEnum(s)

\* one path of the $set: modified and declared by the schema
Written(s, patch, path) == path \in patch.set /\ path \in SchemaPaths(s)

\* a save() that also writes the caller's role over the doctor reference
PersistOverDoctor(s, doc, patch) ==
  [doc EXCEPT
     !.status = IF Written(s, patch, "status") THEN patch.status ELSE @,
     !.doctor = IF "cancelledBy" \in patch.set THEN patch.cancelledBy ELSE @]

\* the stored document after save(): $set of the modified declared paths
Persist(s, doc, patch) ==
  [doc EXCEPT
     !.status = IF Written(s, patch, "status") THEN patch.status ELSE @,
     !.notes = IF Written(s, patch, "notes") THEN patch.notes ELSE @,
     !.prescription = IF Written(s, patch, "prescription") THEN patch.prescription ELSE @,
     !.cancelledBy = IF Written(s, patch, "cancelledBy") THEN patch.cancelledBy ELSE @,
     !.cancellationReason =
        IF Written(s, patch, "cancellationReason") THEN patch.cancellationReason ELSE @,
     !.completedAt = IF Written(s, patch, "completedAt") THEN patch.completedAt ELSE @]

\* ---------------------------------------------------------------- outcomes
Out(http, code) == [http |-> http, code |-> code]
Proceed == Out(0, "proceed")
\* handleError: err.statusCode || 500
ServerError == Out(500, "SERVER_ERROR")

\* ------------------------------------------------------------------- Book
\* if (appointmentDate < today)
BookPastDate(t, nowv) == JsLt(JsDate(t), JsDate(nowv))

\* the checks of POST / without the role gate
BookDecisionAnyRole(st, u, doctorId, t, nowv) ==
  IF BookPastDate(t, nowv) THEN Out(400, "PAST_DATE")
  ELSE IF checkTimeSlotConflict(st, doctorId, t, 0) # 0 THEN Out(409, "SCHEDULE_CONFLICT")
  ELSE Proceed

\* POST /: role gate, date validation, conflict query; Proceed means create
BookDecision(st, u, doctorId, t, nowv) ==
  IF RoleOf(u) # "patient" THEN Out(403, "ACCESS_DENIED")
  ELSE IF BookPastDate(t, nowv) THEN Out(400, "PAST_DATE")
  ELSE IF checkTimeSlotConflict(st, doctorId, t, 0) # 0 THEN Out(409, "SCHEDULE_CONFLICT")
  ELSE Proceed

\* ----------------------------------------------------------------- Cancel
\* (appointment.date - now) / (1000 * 60 * 60), kept in minutes
MinutesUntil(s, doc, nowv) == JsMinus(DateGet(s, doc.date), JsDate(nowv))

\* isPatient && hoursUntilAppointment < 24
PatientTooLate(s, doc, nowv) ==
  NumLt(MinutesUntil(s, doc, nowv), PatientCutoffHours * MinutesPerHour)

\* isDoctor && hoursUntilAppointment < 1
DoctorTooLate(s, doc, nowv) ==
  NumLt(MinutesUntil(s, doc, nowv), DoctorCutoffHours * MinutesPerHour)

\* the status check with "cancelled" left out of the list
CancelStatusBlockedCompletedOnly(doc) == doc.status = "completed"

\* ["cancelled", "completed"].includes(appointment.status)
CancelStatusBlocked(doc) == doc.status \in {"cancelled", "completed"}

\* PATCH /:id/cancel on the loaded document; Proceed means save
CancelDecision(s, doc, u, nowv) ==
  LET isPatient == u = doc.patient
      isDoctor == u = doc.doctor
  IN IF ~isPatient /\ ~isDoctor THEN Out(403, "UNAUTHORIZED")
     ELSE IF CancelStatusBlocked(doc) THEN Out(400, "INVALID_STATUS")
     ELSE IF isPatient /\ PatientTooLate(s, doc, nowv) THEN Out(403, "CANCELLATION_WINDOW")
     ELSE IF isDoctor /\ DoctorTooLate(s, doc, nowv) THEN Out(403, "CANCELLATION_WINDOW")
     ELSE Proceed

\* a cancellation that records who cancelled but leaves the status pending
CancelPatchKeepingStatus(u, reason) ==
  Patch({"status", "cancelledBy", "cancellationReason"}, "pending", NoText, NoText,
        RoleOf(u), IF reason = NoText THEN "No reason provided" ELSE reason, Unset)

\* status, cancelledBy and cancellationReason are assigned before save()
CancelPatch(u, reason) ==
  Patch({"status", "cancelledBy", "cancellationReason"}, "cancelled", NoText, NoText,
        RoleOf(u), IF reason = NoText THEN "No reason provided" ELSE reason, Unset)

\* --------------------------------------------------------------- Accept
\* the checks of PUT /:id/accept without the comparison of the doctor
AcceptDecisionAnyDoctor(doc, u) ==
  IF doc.status # "pending" THEN Out(400, "INVALID_STATUS") ELSE Proceed

\* PUT /:id/accept up to the conflict query; Proceed means run the query
AcceptDecision(doc, u) ==
  IF doc.doctor # u THEN Out(403, "UNAUTHORIZED")
  ELSE IF doc.status # "pending" THEN Out(400, "INVALID_STATUS")
  ELSE Proceed

\* checkTimeSlotConflict(req.user.userId, appointment.date, appointment._id)
AcceptConflict(st, s, id, u) ==
  IF ~HasGetTime(DateGet(s, st[id].date)) THEN ServerError
  ELSE IF checkTimeSlotConflict(st, u, DateGet(s, st[id].date).t, id) # 0
    THEN Out(409, "SCHEDULE_CONFLICT")
  ELSE Proceed

\* appointment.status = "confirmed"
AcceptPatch == Patch({"status"}, "confirmed", NoText, NoText, NoText, NoText, Unset)

\* -------------------------------------------------------------- Complete
\* the date check with the comparison turned around
CompleteFutureReversed(s, doc, nowv) == JsLt(DateGet(s, doc.date), JsDate(nowv))

\* if (appointment.date > new Date())
CompleteFuture(s, doc, nowv) == JsGt(DateGet(s, doc.date), JsDate(nowv))

\* PATCH /:id/complete on the loaded document; Proceed means save
CompleteDecision(s, doc, u, nowv) ==
  IF doc.doctor # u THEN Out(403, "UNAUTHORIZED")
  ELSE IF doc.status # "confirmed" THEN Out(400, "INVALID_STATUS")
  ELSE IF CompleteFuture(s, doc, nowv) THEN Out(400, "FUTURE_APPOINTMENT")
  ELSE Proceed

\* notes || appointment.notes and prescription || appointment.prescription
\* modify the path only when the caller supplies a value
CompletePatch(notes, prescription, nowv) ==
  Patch({"status", "completedAt"}
          \cup (IF notes = NoText THEN {} ELSE {"notes"})
          \cup (IF prescription = NoText THEN {} ELSE {"prescription"}),
        "completed", notes, prescription, NoText, NoText, nowv)

\* ------------------------------------------------- handlers, one at a time
\* a save() that removes the document instead of updating it
SaveAndReplyRemoving(op, u, id, patch) ==
  /\ store' = [i \in 1..(Len(store) - 1) |-> IF i < id THEN store[i] ELSE store[i + 1]]
  /\ resp' = Reply(op, u, id, Unset, 200, "OK")

\* await appointment.save(), then the response
SaveAndReply(op, u, id, patch) ==
  IF SaveValid(schema, patch)
    THEN /\ store' = [store EXCEPT ![id] = Persist(schema, store[id], patch)]
         /\ resp' = Reply(op, u, id, Unset, 200, "OK")
    ELSE /\ store' = store
         /\ resp' = Reply(op, u, id, Unset, 500, "SERVER_ERROR")

Fail(op, u, id, t, out) ==
  /\ store' = store
  /\ resp' = Reply(op, u, id, t, out.http, out.code)

\* conflictingAppointment: { id: conflict._id, date: conflict.date,
\* patient: conflict.patient }, the date read through the getter
ConflictInfo(s, st, c) ==
  [id |-> c, date |-> DateGet(s, st[c].date), patient |-> st[c].patient]

Book(u, doctorId, t, purpose, notes) ==
  LET out == BookDecision(store, u, doctorId, t, now)
  IN /\ IF out = Proceed
          THEN /\ Len(store) < MaxAppts
               /\ store' = Append(store, NewDoc(schema, u, doctorId, t, purpose, notes))
               /\ resp' = BookReply(u, doctorId, Len(store) + 1, t, 201, "OK")
          ELSE /\ store' = store
               /\ resp' = [BookReply(u, doctorId, 0, t, out.http, out.code) EXCEPT
                    !.data = IF out.http = 409
                               THEN <<ConflictInfo(schema, store,
                                        checkTimeSlotConflict(store, doctorId, t, 0))>>
                               ELSE <<>>]
     /\ UNCHANGED <<now, schema, inflight>>

Cancel(u, id, reason) ==
  /\ IF id \notin Ids THEN Fail("cancel", u, id, Unset, Out(404, "NOT_FOUND"))
     ELSE LET out == CancelDecision(schema, store[id], u, now)
          IN IF out # Proceed THEN Fail("cancel", u, id, Unset, out)
             ELSE SaveAndReply("cancel", u, id, CancelPatch(u, reason))
  /\ UNCHANGED <<now, schema, inflight>>

Accept(u, id) ==
  /\ IF RoleOf(u) # "doctor" THEN Fail("accept", u, id, Unset, Out(403, "ACCESS_DENIED"))
     ELSE IF id \notin Ids THEN Fail("accept", u, id, Unset, Out(404, "NOT_FOUND"))
     ELSE LET out == AcceptDecision(store[id], u)
          IN IF out # Proceed THEN Fail("accept", u, id, Unset, out)
             ELSE LET conf == AcceptConflict(store, schema, id, u)
                  IN IF conf # Proceed THEN Fail("accept", u, id, Unset, conf)
                     ELSE SaveAndReply("accept", u, id, AcceptPatch)
  /\ UNCHANGED <<now, schema, inflight>>

Complete(u, id, notes, prescription) ==
  /\ IF RoleOf(u) # "doctor" THEN Fail("complete", u, id, Unset, Out(403, "ACCESS_DENIED"))
     ELSE IF id \notin Ids THEN Fail("complete", u, id, Unset, Out(404, "NOT_FOUND"))
     ELSE LET out == CompleteDecision(schema, store[id], u, now)
          IN IF out # Proceed THEN Fail("complete", u, id, Unset, out)
             ELSE SaveAndReply("complete", u, id, CompletePatch(notes, prescription, now))
  /\ UNCHANGED <<now, schema, inflight>>

\* ---------------------------------------------------------------- Get-one
\* res.json({ data: appointment }): toJSON runs the getters
DocView(s, doc) == [doc EXCEPT !.date = DateGet(s, doc.date)]

\* GET /:id answering every caller
GetDecisionOpen(doc, u) == Out(200, "OK")

\* GET /:id on the loaded document
GetDecision(doc, u) ==
  LET isPatient == u = doc.patient
      isDoctor == u = doc.doctor
  IN IF ~isPatient /\ ~isDoctor /\ RoleOf(u) # "admin" THEN Out(403, "UNAUTHORIZED")
     ELSE Out(200, "OK")

GetOne(u, id) ==
  /\ IF id \notin Ids THEN resp' = Reply("get", u, id, Unset, 404, "NOT_FOUND")
     ELSE LET out == GetDecision(store[id], u)
          IN resp' = [Reply("get", u, id, Unset, out.http, out.code) EXCEPT
                        !.data = IF out.http = 200 THEN <<DocView(schema, store[id])>>
                                 ELSE <<>>]
  /\ UNCHANGED <<store, now, schema, inflight>>

\* -------------------------------------------------------------- list-mine
\* const normalizeDate: setUTCHours(0, 0, 0, 0)
normalizeDate(t) == t - (t % MinutesPerDay)

\* const { page = 1, limit = 10 } = req.query
DefaultLimit == 10

\* the filter without the restriction to the caller
ListMatchAnyOwner(st, i, u, view, status, from, to) ==
  /\ status # NoText => st[i].status = status
  /\ from # Unset => st[i].date >= normalizeDate(from)
  /\ to # Unset => st[i].date <= normalizeDate(to)

\* the filter of GET /patient and GET /doctor: view names the path compared
\* with req.user.userId
ListMatch(st, i, u, view, status, from, to) ==
  /\ st[i][view] = u
  /\ status # NoText => st[i].status = status
  /\ from # Unset => st[i].date >= normalizeDate(from)
  /\ to # Unset => st[i].date <= normalizeDate(to)

\* sort: { date: -1 }; documents of equal date stay in insertion order
RECURSIVE SortByDateDesc(_, _)
SortByDateDesc(st, ids) ==
  IF ids = {} THEN <<>>
  ELSE LET first == CHOOSE i \in ids :
                      \A j \in ids : st[i].date > st[j].date
                                     \/ (st[i].date = st[j].date /\ i <= j)
       IN <<first>> \o SortByDateDesc(st, ids \ {first})

\* one element of result.docs
ListItem(s, st, i) == [id |-> i, doc |-> DocView(s, st[i])]

\* Appointment.paginate(query, { page, limit, sort }): the first page
Paginate(s, st, ids) ==
  LET sorted == SortByDateDesc(st, ids)
      shown == IF Len(sorted) > DefaultLimit THEN DefaultLimit ELSE Len(sorted)
  IN [k \in 1..shown |-> ListItem(s, st, sorted[k])]

\* GET /patient (view = "patient") and GET /doctor (view = "doctor")
ListMine(u, view, status, from, to) ==
  /\ IF RoleOf(u) # view
       THEN resp' = Reply("list", u, 0, Unset, 403, "ACCESS_DENIED")
       ELSE resp' = [Reply("list", u, 0, Unset, 200, "OK") EXCEPT
                       !.data = Paginate(schema, store,
                                  {i \in Ids : ListMatch(store, i, u, view, status, from, to)})]
  /\ UNCHANGED <<store, now, schema, inflight>>

\* the clock only moves forward
Tick(NS) ==
  /\ \E t \in NS : t > now /\ now' = t
  /\ UNCHANGED <<store, resp, schema, inflight>>

ReqIds == 1..(MaxAppts + 1)

DoBook(US, DS, TS, PS, XS) ==
  \E u \in US, d \in DS, t \in TS, p \in PS, n \in XS : Book(u, d, t, p, n)
DoCancel(US, RS) == \E u \in US, id \in ReqIds, r \in RS : Cancel(u, id, r)
DoAccept(US) == \E u \in US, id \in ReqIds : Accept(u, id)
DoComplete(US, XS) == \E u \in US, id \in ReqIds, n \in XS : Complete(u, id, n, n)
DoGet(US) == \E u \in US, id \in ReqIds : GetOne(u, id)
DoList(US, SS, FS) ==
  \E u \in US, view \in {"patient", "doctor"}, status \in SS, from \in FS, to \in FS :
    ListMine(u, view, status, from, to)

\* ------------------------------------------- handlers, interleaved at await
\* a request between two awaits: seen is the status findById loaded, sawLen
\* the number of documents when the conflict query ran, at the clock reading
\* taken after the load
Idle ==
  [op |-> "none", stage |-> "idle", caller |-> NoText, id |-> 0, doctor |-> NoText,
   t |-> Unset, text |-> NoText, seen |-> NoText, sawLen |-> 0, at |-> Unset,
   http |-> 0]

Started(op, stage, u, id, doctorId, t, text, seen, sawLen, at) ==
  [op |-> op, stage |-> stage, caller |-> u, id |-> id, doctor |-> doctorId,
   t |-> t, text |-> text, seen |-> seen, sawLen |-> sawLen, at |-> at, http |-> 0]

Done(r, id, http) == [r EXCEPT !.stage = "done", !.id = id, !.http = http]

\* POST /: up to the answer of the conflict query
BookStart(p, u, doctorId, t, purpose) ==
  LET out == BookDecision(store, u, doctorId, t, now)
      r == Started("book", "checked", u, 0, doctorId, t, purpose, NoText, Len(store), now)
  IN /\ inflight[p].stage = "idle"
     /\ inflight' = [inflight EXCEPT ![p] = IF out = Proceed THEN r ELSE Done(r, 0, out.http)]
     /\ UNCHANGED <<store, now, resp, schema>>

\* await Appointment.create(...)
BookCreate(p) ==
  LET r == inflight[p]
  IN /\ r.op = "book" /\ r.stage = "checked"
     /\ Len(store) < MaxAppts
     /\ store' = Append(store, NewDoc(schema, r.caller, r.doctor, r.t, r.text, NoText))
     /\ inflight' = [inflight EXCEPT ![p] = Done(r, Len(store) + 1, 201)]
     /\ UNCHANGED <<now, resp, schema>>

\* PATCH /:id/cancel: findById and the checks on the loaded document
CancelStart(p, u, id, reason) ==
  LET r == Started("cancel", "loaded", u, id, NoText, Unset, reason,
                   IF id \in Ids THEN store[id].status ELSE NoText, 0, now)
      out == IF id \notin Ids THEN Out(404, "NOT_FOUND")
             ELSE CancelDecision(schema, store[id], u, now)
  IN /\ inflight[p].stage = "idle"
     /\ inflight' = [inflight EXCEPT ![p] = IF out = Proceed THEN r ELSE Done(r, id, out.http)]
     /\ UNCHANGED <<store, now, resp, schema>>

\* PUT /:id/accept: findById, the checks and the call of checkTimeSlotConflict
AcceptStart(p, u, id) ==
  LET r == Started("accept", "loaded", u, id, NoText, Unset, NoText,
                   IF id \in Ids THEN store[id].status ELSE NoText, 0, now)
      out == IF RoleOf(u) # "doctor" THEN Out(403, "ACCESS_DENIED")
             ELSE IF id \notin Ids THEN Out(404, "NOT_FOUND")
             ELSE IF AcceptDecision(store[id], u) # Proceed THEN AcceptDecision(store[id], u)
             ELSE IF ~HasGetTime(DateGet(schema, store[id].date)) THEN ServerError
             ELSE Proceed
  IN /\ inflight[p].stage = "idle"
     /\ inflight' = [inflight EXCEPT ![p] = IF out = Proceed THEN r ELSE Done(r, id, out.http)]
     /\ UNCHANGED <<store, now, resp, schema>>

\* the answer of the conflict query
AcceptQuery(p) ==
  LET r == inflight[p]
      conf == AcceptConflict(store, schema, r.id, r.caller)
  IN /\ r.op = "accept" /\ r.stage = "loaded"
     /\ inflight' = [inflight EXCEPT ![p] =
           IF conf = Proceed THEN [r EXCEPT !.stage = "queried"] ELSE Done(r, r.id, conf.http)]
     /\ UNCHANGED <<store, now, resp, schema>>

\* PATCH /:id/complete: findById and the checks on the loaded document
CompleteStart(p, u, id, notes) ==
  LET r == Started("complete", "loaded", u, id, NoText, Unset, notes,
                   IF id \in Ids THEN store[id].status ELSE NoText, 0, now)
      out == IF RoleOf(u) # "doctor" THEN Out(403, "ACCESS_DENIED")
             ELSE IF id \notin Ids THEN Out(404, "NOT_FOUND")
             ELSE CompleteDecision(schema, store[id], u, now)
  IN /\ inflight[p].stage = "idle"
     /\ inflight' = [inflight EXCEPT ![p] = IF out = Proceed THEN r ELSE Done(r, id, out.http)]
     /\ UNCHANGED <<store, now, resp, schema>>

\* the patch the handler built on the document it loaded
PatchFor(r) ==
  IF r.op = "cancel" THEN CancelPatch(r.caller, r.text)
  ELSE IF r.op = "accept" THEN AcceptPatch
  ELSE CompletePatch(r.text, r.text, r.at)

\* await appointment.save() of Cancel, Accept and Complete: the write does not
\* look at the stored status
SaveStep(p) ==
  LET r == inflight[p]
  IN /\ \/ r.op \in {"cancel", "complete"} /\ r.stage = "loaded"
        \/ r.op = "accept" /\ r.stage = "queried"
     /\ IF SaveValid(schema, PatchFor(r))
          THEN /\ store' = [store EXCEPT ![r.id] = Persist(schema, store[r.id], PatchFor(r))]
               /\ inflight' = [inflight EXCEPT ![p] = Done(r, r.id, 200)]
          ELSE /\ store' = store
               /\ inflight' = [inflight EXCEPT ![p] = Done(r, r.id, 500)]
     /\ UNCHANGED <<now, resp, schema>>

\* the response is sent and the request is over
Respond(p) ==
  /\ inflight[p].stage = "done"
  /\ inflight' = [inflight EXCEPT ![p] = Idle]
  /\ UNCHANGED <<store, now, resp, schema>>

\* GET /:id: findById, the checks and the response body
GetStart(p, u, id) ==
  LET r == Started("get", "loaded", u, id, NoText, Unset, NoText, NoText, 0, now)
      out == IF id \notin Ids THEN Out(404, "NOT_FOUND") ELSE GetDecision(store[id], u)
  IN /\ inflight[p].stage = "idle"
     /\ inflight' = [inflight EXCEPT ![p] = Done(r, id, out.http)]
     /\ UNCHANGED <<store, now, resp, schema>>

\* the awaited store call of a suspended handler rejects: the catch block
\* calls handleError
StoreFail(p) ==
  /\ inflight[p].stage \in {"checked", "loaded", "queried"}
  /\ inflight' = [inflight EXCEPT ![p] = Done(inflight[p], inflight[p].id, ServerError.http)]
  /\ UNCHANGED <<store, now, resp, schema>>

\* the first store call of a handler (findById, the conflict query) rejects
FirstCallFails(p, op, u, id) ==
  /\ inflight[p].stage = "idle"
  /\ inflight' = [inflight EXCEPT ![p] =
        Done(Started(op, "loaded", u, id, NoText, Unset, NoText, NoText, 0, now),
             id, ServerError.http)]
  /\ UNCHANGED <<store, now, resp, schema>>

\* the promise of an async handler rejects: the handler sends nothing; the
\* framework, whose version src/ does not fix, either drops the rejection
\* (the request is never answered) or answers 500 through its default error
\* handler
HandlerRejected(r) ==
  {[r EXCEPT !.stage = "abandoned"], Done(r, r.id, ServerError.http)}

\* the transactional POST / of unnamed/part_003: the checks before the
\* session, then await mongoose.startSession(), which is outside the try
\* block: when it rejects, the promise of the handler rejects
TxBookStart(p, u, doctorId, t) ==
  LET r == Started("txbook", "session", u, 0, doctorId, t, NoText, NoText, Len(store), now)
  IN /\ inflight[p].stage = "idle"
     /\ \E next \in {r} \cup HandlerRejected(r) :
          inflight' = [inflight EXCEPT ![p] =
            IF RoleOf(u) # "patient" THEN Done(r, 0, 403)
            ELSE IF t < now THEN Done(r, 0, 400)
            ELSE next]
     /\ UNCHANGED <<store, now, resp, schema>>

\* the try block of the transactional POST /: conflict query, create,
\* populate and commit; when one of them rejects the catch block awaits
\* session.abortTransaction() before handleError, and when that rejects too
\* the promise of the handler rejects
TxBookRun(p) ==
  LET r == inflight[p]
      conflict == checkTimeSlotConflict(store, r.doctor, r.t, 0) # 0
  IN /\ r.op = "txbook" /\ r.stage = "session"
     /\ \/ /\ conflict
           /\ store' = store
           /\ inflight' = [inflight EXCEPT ![p] = Done(r, 0, 409)]
        \/ /\ ~conflict /\ Len(store) < MaxAppts
           /\ store' = Append(store, NewDoc(schema, r.caller, r.doctor, r.t, NoText, NoText))
           /\ inflight' = [inflight EXCEPT ![p] = Done(r, Len(store) + 1, 201)]
        \/ /\ store' = store
           /\ \E next \in {Done(r, 0, ServerError.http)} \cup HandlerRejected(r) :
                inflight' = [inflight EXCEPT ![p] = next]
     /\ UNCHANGED <<now, resp, schema>>

\* ------------------------------------------- Book with a reference check
\* Appointment.populate leaves null where the id names no user
Populated(id) == id \in Users \cup Admins

\* POST / of server/routes/auth.js (appointmentRoutes.js): role gate, date
\* check, conflict query, create, populate, the check of the populated
\* references; with useTransactions the abort undoes the create
BookChecked(u, doctorId, t, useTransactions) ==
  LET created == Append(store, NewDoc(schema, u, doctorId, t, NoText, NoText))
      c == checkTimeSlotConflict(store, doctorId, t, 0)
  IN /\ IF RoleOf(u) # "patient"
          THEN /\ store' = store
               /\ resp' = BookReply(u, doctorId, 0, t, 403, "ACCESS_DENIED")
          ELSE IF t < now
            THEN /\ store' = store
                 /\ resp' = BookReply(u, doctorId, 0, t, 400, "PAST_DATE")
          ELSE IF c # 0
            THEN /\ store' = store
                 /\ resp' = [BookReply(u, doctorId, 0, t, 409, "SCHEDULE_CONFLICT")
                              EXCEPT !.data = <<ConflictInfo(schema, store, c)>>]
          ELSE /\ Len(store) < MaxAppts
               /\ IF Populated(doctorId) /\ Populated(u)
                    THEN /\ store' = created
                         /\ resp' = BookReply(u, doctorId, Len(created), t, 201, "OK")
                    ELSE /\ store' = IF useTransactions THEN store ELSE created
                         /\ resp' = BookReply(u, doctorId, 0, t, 400, "INVALID_REFERENCE")
     /\ UNCHANGED <<now, schema, inflight>>

\* ------------------------------------------------ updateAppointmentStatus
\* the values the handler of unnamed/part_005 lets through
StatusValues == {"accepted", "rejected"}

\* appointment.status = status
StatusPatch(status) == Patch({"status"}, status, NoText, NoText, NoText, NoText, Unset)

\* PATCH /:id/status of unnamed/part_005: role gate, value check, findById,
\* comparison of the doctor, save; checkValue is false for the handler of
\* controllers/appointmentController.js, which has no value check
updateAppointmentStatus(u, id, status, checkValue) ==
  /\ IF RoleOf(u) # "doctor" THEN Fail("status", u, id, Unset, Out(403, "ACCESS_DENIED"))
     ELSE IF checkValue /\ status \notin StatusValues
       THEN Fail("status", u, id, Unset, Out(400, "INVALID_STATUS_VALUE"))
     ELSE IF id \notin Ids THEN Fail("status", u, id, Unset, Out(404, "NOT_FOUND"))
     ELSE IF store[id].doctor # u THEN Fail("status", u, id, Unset, Out(403, "UNAUTHORIZED"))
     ELSE SaveAndReply("status", u, id, StatusPatch(status))
  /\ UNCHANGED <<now, schema, inflight>>

\* ------------------------------------- Accept by conditional update
\* the filter { _id: id } alone
UpdateMatchesById(st, id, u) == id \in 1..Len(st)

\* the filter { _id: id, doctor: req.user.userId, status: "pending" } of
\* findOne and of findOneAndUpdate
UpdateMatches(st, id, u) ==
  /\ id \in 1..Len(st)
  /\ st[id].doctor = u
  /\ st[id].status = "pending"

\* PUT /:id/accept of unnamed/part_003 after the role gate: findOne with the
\* filter, appointment.date < new Date(), then appointment.date.getTime()
GuardedAcceptDecision(s, st, id, u, nowv) ==
  IF ~UpdateMatches(st, id, u) THEN Out(404, "NOT_FOUND")
  ELSE IF JsLt(DateGet(s, st[id].date), JsDate(nowv)) THEN Out(400, "PAST_DATE")
  ELSE IF ~HasGetTime(DateGet(s, st[id].date)) THEN ServerError
  ELSE Proceed

GuardedAcceptStart(p, u, id) ==
  LET r == Started("gaccept", "found", u, id, NoText, Unset, NoText,
                   IF id \in Ids THEN store[id].status ELSE NoText, 0, now)
      out == IF RoleOf(u) # "doctor" THEN Out(403, "ACCESS_DENIED")
             ELSE GuardedAcceptDecision(schema, store, id, u, now)
  IN /\ inflight[p].stage = "idle"
     /\ inflight' = [inflight EXCEPT ![p] = IF out = Proceed THEN r ELSE Done(r, id, out.http)]
     /\ UNCHANGED <<store, now, resp, schema>>

\* the answer of the conflict query
GuardedAcceptQuery(p) ==
  LET r == inflight[p]
      conflict == checkTimeSlotConflict(store, r.caller, store[r.id].date, r.id) # 0
  IN /\ r.op = "gaccept" /\ r.stage = "found"
     /\ inflight' = [inflight EXCEPT ![p] =
           IF conflict THEN Done(r, r.id, 409) ELSE [r EXCEPT !.stage = "cleared"]]
     /\ UNCHANGED <<store, now, resp, schema>>

\* findOneAndUpdate(filter, { status: "confirmed" }, { runValidators: true }):
\* the validator rejects a status outside the enum; a document that no longer
\* matches gives null (404) or, inside a transaction, a write conflict that
\* the catch block turns into 500
GuardedAcceptUpdate(p) ==
  LET r == inflight[p]
  IN /\ r.op = "gaccept" /\ r.stage = "cleared"
     /\ IF ~SaveValid(schema, AcceptPatch)
          THEN /\ store' = store
               /\ inflight' = [inflight EXCEPT ![p] = Done(r, r.id, ServerError.http)]
          ELSE IF UpdateMatches(store, r.id, r.caller)
            THEN /\ store' = [store EXCEPT ![r.id] = Persist(schema, store[r.id], AcceptPatch)]
                 /\ inflight' = [inflight EXCEPT ![p] = Done(r, r.id, 200)]
            ELSE /\ store' = store
                 /\ \E http \in {404, ServerError.http} :
                      inflight' = [inflight EXCEPT ![p] = Done(r, r.id, http)]
     /\ UNCHANGED <<now, resp, schema>>

\* ---------------------------------------------------------- specifications
InitCommon ==
  /\ store = <<>>
  /\ now = 1380
  /\ resp = NoResp
  /\ inflight = [p \in Procs |-> Idle]

\* the deployed pairing: routes/appointments.js with models/Appointment.js
Init == InitCommon /\ schema = SchemaServer

Next ==
  \/ DoBook(Users, Doctors, ReqTimes, Purposes, {NoText})
  \/ DoCancel(Users, Reasons)
  \/ DoAccept(Users)
  \/ DoComplete(Users, Texts)
  \/ Tick(NowTimes)

Spec == Init /\ [][Next]_vars

\* the same handlers over either schema of the repository
AltBookers == {"p1", "d1"}
AltUsers == {"p1", "p2", "d1"}
AltDoctors == {"d1"}
AltTimes == {2880, 2900, 3480}
AltNow == {2850, 2880, 2940}

InitSchemas == InitCommon /\ schema \in {SchemaServer, SchemaPart000}

NextSchemas ==
  \/ DoBook(AltBookers, AltDoctors, AltTimes, Purposes, Texts)
  \/ DoCancel(AltUsers, {NoText})
  \/ DoAccept(AltUsers)
  \/ DoComplete(AltUsers, Texts)
  \/ Tick(AltNow)

SpecSchemas == InitSchemas /\ [][NextSchemas]_vars

\* callers of every role, doctorIds that name a user who is not a doctor, and
\* the optional body fields, under either schema
AccessUsers == {"p1", "p2", "d1"}
AccessReaders == AccessUsers \cup Admins
AccessStaff == {"p2", "d1"}
AccessBookers == {"p1", "d1"}
AccessDoctorIds == {"d1", "p2"}
AccessTimes == {2880}
AccessPurposes == {NoText, "Checkup"}
AccessNow == {2940}

InitAccess == InitCommon /\ schema \in {SchemaServer, SchemaPart000}

NextAccess ==
  \/ DoBook(AccessBookers, AccessDoctorIds, AccessTimes, AccessPurposes, {NoText})
  \/ DoCancel(AccessUsers, {NoText})
  \/ DoAccept(AccessStaff)
  \/ DoComplete(AccessStaff, {NoText})
  \/ DoGet(AccessReaders)
  \/ Tick(AccessNow)

SpecAccess == InitAccess /\ [][NextAccess]_vars

\* the two list views over appointments on two days, under either schema:
\* day 2 is 2880..4319 and day 3 is 4320..5759
ListUsers == {"p1", "p2", "d1"}
ListBookers == {"p1", "p2"}
ListDoctors == {"d1"}
ListTimes == {3480, 4920}
ListStatuses == {NoText, "pending", "cancelled"}
ListBounds == {Unset, 2880, 4320}

InitList == InitCommon /\ schema \in {SchemaServer, SchemaPart000}

NextList ==
  \/ DoBook(ListBookers, ListDoctors, ListTimes, Purposes, {NoText})
  \/ DoCancel(ListBookers, {NoText})
  \/ DoList(ListUsers, ListStatuses, ListBounds)

SpecList == InitList /\ [][NextList]_vars

\* bookings for two doctors at slots exactly 30 and 40 minutes apart, with
\* cancellations, acceptances and completions, under either schema
SlotBookers == {"p1"}
SlotDoctors == {"d1", "d2"}
SlotStaff == {"d1"}
SlotTimes == {2880, 2910, 2950}
SlotNow == {2960}

InitSlots == InitCommon /\ schema \in {SchemaServer, SchemaPart000}

NextSlots ==
  \/ DoBook(SlotBookers, SlotDoctors, SlotTimes, Purposes, {NoText})
  \/ DoCancel(SlotBookers, {NoText})
  \/ DoAccept(SlotStaff)
  \/ DoComplete(SlotStaff, {NoText})
  \/ Tick(SlotNow)

SpecSlots == InitSlots /\ [][NextSlots]_vars

\* requests of several callers in flight at once, under either schema
ConcUsers == {"p1", "d1"}
ConcDoctors == {"d1"}
ConcTimes == {2880, 2900}
ConcNow == {2940}
TerminalStatuses == {"cancelled", "completed"}

InitConc == InitCommon /\ schema \in {SchemaServer, SchemaPart000}

NextConc ==
  \/ \E p \in Procs, u \in ConcUsers, d \in ConcDoctors, t \in ConcTimes :
        BookStart(p, u, d, t, NoText)
  \/ \E p \in Procs : BookCreate(p)
  \/ \E p \in Procs, u \in ConcUsers, id \in ReqIds : CancelStart(p, u, id, NoText)
  \/ \E p \in Procs, u \in ConcUsers, id \in ReqIds : AcceptStart(p, u, id)
  \/ \E p \in Procs : AcceptQuery(p)
  \/ \E p \in Procs, u \in ConcUsers, id \in ReqIds : CompleteStart(p, u, id, NoText)
  \/ \E p \in Procs : SaveStep(p)
  \/ \E p \in Procs : Respond(p)
  \/ Tick(ConcNow)

SpecConc == InitConc /\ [][NextConc]_vars

\* bookings whose doctorId may name no user, by the handler that checks the
\* populated references, with and without transactions, next to the router
\* handlers, under either schema
RefBookers == {"p1", "d1"}
RefDoctorIds == {"d1", "x1"}
RefStaff == {"d1"}
RefTimes == {2880}
RefNow == {2940}

InitRefs == InitCommon /\ schema \in {SchemaServer, SchemaPart000}

NextRefs ==
  \/ \E u \in RefBookers, d \in RefDoctorIds, t \in RefTimes, useTransactions \in BOOLEAN :
        BookChecked(u, d, t, useTransactions)
  \/ DoBook(RefBookers, RefDoctorIds, RefTimes, Purposes, {NoText})
  \/ DoCancel(RefBookers, {NoText})
  \/ DoAccept(RefStaff)
  \/ DoComplete(RefStaff, {NoText})
  \/ Tick(RefNow)

SpecRefs == InitRefs /\ [][NextRefs]_vars

\* the status-update handlers next to Book, Cancel and Complete, under either
\* schema
StatusUsers == {"p1", "d1", "d2"}
StatusPatients == {"p1"}
StatusDoctors == {"d1"}
StatusTimes == {2880}
StatusRequested == {"accepted", "rejected", "completed"}
StatusNow == {2940}

InitStatus == InitCommon /\ schema \in {SchemaServer, SchemaPart000}

NextStatus ==
  \/ DoBook(StatusPatients, StatusDoctors, StatusTimes, Purposes, {NoText})
  \/ DoCancel(StatusPatients, {NoText})
  \/ DoAccept(StatusDoctors)
  \/ DoComplete(StatusDoctors, {NoText})
  \/ \E u \in StatusUsers, id \in ReqIds, status \in StatusRequested, checkValue \in BOOLEAN :
        updateAppointmentStatus(u, id, status, checkValue)
  \/ Tick(StatusNow)

SpecStatus == InitStatus /\ [][NextStatus]_vars

\* both Accept handlers, the one that saves the loaded document and the one
\* that updates conditionally, racing with bookings and cancellations
GuardUsers == {"d1", "d2"}
GuardPatients == {"p1"}
GuardDoctors == {"d1"}
GuardTimes == {2880, 2900}

InitGuard == InitCommon /\ schema \in {SchemaServer, SchemaPart000}

NextGuard ==
  \/ \E p \in Procs, u \in GuardPatients, d \in GuardDoctors, t \in GuardTimes :
        BookStart(p, u, d, t, NoText)
  \/ \E p \in Procs : BookCreate(p)
  \/ \E p \in Procs, u \in GuardPatients, id \in ReqIds : CancelStart(p, u, id, NoText)
  \/ \E p \in Procs, u \in GuardUsers, id \in ReqIds : AcceptStart(p, u, id)
  \/ \E p \in Procs : AcceptQuery(p)
  \/ \E p \in Procs : SaveStep(p)
  \/ \E p \in Procs, u \in GuardUsers, id \in ReqIds : GuardedAcceptStart(p, u, id)
  \/ \E p \in Procs : GuardedAcceptQuery(p)
  \/ \E p \in Procs : GuardedAcceptUpdate(p)
  \/ \E p \in Procs : Respond(p)

SpecGuard == InitGuard /\ [][NextGuard]_vars

\* requests whose store calls may fail, with every suspended handler resumed
\* in the end: the event loop runs the continuation of every settled promise
LiveUsers == {"p1", "d1"}
LiveDoctors == {"d1"}
LiveTimes == {2880}
LiveIds == 1..MaxAppts
LiveOps == {"book", "cancel", "accept", "complete", "get"}

\* the steps that resume the handler of request p
Resume(p) ==
  \/ BookCreate(p)
  \/ AcceptQuery(p)
  \/ SaveStep(p)
  \/ StoreFail(p)
  \/ TxBookRun(p)
  \/ Respond(p)

InitLive == InitCommon /\ schema \in {SchemaServer, SchemaPart000}

NextLive ==
  \/ \E p \in Procs, u \in LiveUsers, d \in LiveDoctors, t \in LiveTimes :
        BookStart(p, u, d, t, NoText)
  \/ \E p \in Procs, u \in LiveUsers, d \in LiveDoctors, t \in LiveTimes :
        TxBookStart(p, u, d, t)
  \/ \E p \in Procs, u \in LiveUsers, id \in LiveIds : CancelStart(p, u, id, NoText)
  \/ \E p \in Procs, u \in LiveUsers, id \in LiveIds : AcceptStart(p, u, id)
  \/ \E p \in Procs, u \in LiveUsers, id \in LiveIds : CompleteStart(p, u, id, NoText)
  \/ \E p \in Procs, u \in LiveUsers, id \in LiveIds : GetStart(p, u, id)
  \/ \E p \in Procs, op \in LiveOps, u \in LiveUsers, id \in LiveIds :
        FirstCallFails(p, op, u, id)
  \/ \E p \in Procs : Resume(p)

SpecLive == InitLive /\ [][NextLive]_vars /\ \A p \in Procs : WF_vars(Resume(p))


\* ------------------------------------------------------------------ claims
Abs(x) == IF x < 0 THEN -x ELSE x
Participants(doc) == {doc.patient, doc.doctor}
\* the step is the answer to one request
Answered == resp'.par # resp.par

\* the active appointments of doctor d inside the window centred on T
ActiveInWindow(d, T) ==
  {i \in Ids : /\ store[i].doctor = d
               /\ store[i].status \in ActiveStatuses
               /\ store[i].date >= T - WindowMinutes
               /\ store[i].date <= T + WindowMinutes}

WindowCentres == 2850..3510

\* C1: with the handlers run one at a time, every doctor has at most one
\* pending or confirmed appointment inside any window [T-30min, T+30min]
C1_ConflictFree ==
  \A d \in Doctors, T \in WindowCentres : Cardinality(ActiveInWindow(d, T)) <= 1

\* two Book requests that both created a document, each having run its
\* conflict query before the other's create
BothBooked(p, q) ==
  /\ p # q
  /\ inflight[p].op = "book" /\ inflight[p].stage = "done" /\ inflight[p].http = 201
  /\ inflight[q].op = "book" /\ inflight[q].stage = "done" /\ inflight[q].http = 201
  /\ inflight[p].doctor = inflight[q].doctor
  /\ Abs(inflight[p].t - inflight[q].t) <= WindowMinutes
  /\ inflight[p].id > inflight[q].sawLen
  /\ inflight[q].id > inflight[p].sawLen

\* C2: of two concurrent Book requests for one doctor with times within 30
\* minutes of each other, at most one creates an appointment
C2_ConcurrentBookExclusive ==
  schema = SchemaServer => \A p, q \in Procs : ~BothBooked(p, q)

\* two transitions of one appointment that both loaded the same status and
\* both saved
BothTransitioned(p, q) ==
  /\ p # q
  /\ inflight[p].op \in {"accept", "cancel", "complete"}
  /\ inflight[q].op \in {"accept", "cancel", "complete"}
  /\ inflight[p].stage = "done" /\ inflight[p].http = 200
  /\ inflight[q].stage = "done" /\ inflight[q].http = 200
  /\ inflight[p].id = inflight[q].id
  /\ inflight[p].seen = inflight[q].seen

\* C3: of two concurrent Accept/Cancel/Complete requests on one appointment
\* that read the same prior status, at most one completes its transition
C3_OneTransitionWins ==
  schema = SchemaServer => \A p, q \in Procs : ~BothTransitioned(p, q)

AllowedSteps ==
  {<<"pending", "confirmed">>, <<"pending", "cancelled">>,
   <<"confirmed", "completed">>, <<"confirmed", "cancelled">>}

C4_Step ==
  /\ \A i \in Ids :
        store'[i].status # store[i].status =>
          <<store[i].status, store'[i].status>> \in AllowedSteps
  /\ (/\ Answered /\ resp'.op = "cancel" /\ resp'.id \in Ids
      /\ resp'.caller \in Participants(store[resp'.id])
      /\ store[resp'.id].status \in TerminalStatuses)
     => (resp'.http = 400 /\ resp'.code = "INVALID_STATUS" /\ store' = store)

\* C4: with the handlers run one at a time, a stored status changes only by
\* pending->confirmed, pending->cancelled, confirmed->completed or
\* confirmed->cancelled, and a Cancel by a participant on a cancelled or
\* completed appointment answers 400 INVALID_STATUS and changes nothing
C4_Transitions == [][C4_Step]_vars

C4_Witness ==
  /\ resp.op = "cancel" /\ resp.code = "INVALID_STATUS"
  /\ resp.id \in Ids /\ store[resp.id].status = "completed"

\* C5: a stored status of cancelled or completed never changes again, also
\* when Accept, Cancel and Complete interleave between load and save
C5_TerminalAbsorbing ==
  [][\A i \in Ids : store[i].status \in TerminalStatuses
                      => store'[i].status = store[i].status]_vars

\* C6: a Book by a patient whose requested time is at or before the clock
\* reading answers 400 and creates nothing
C6_PastOrNowRejected ==
  [][(Answered /\ resp'.op = "book" /\ resp'.caller \in Patients /\ resp'.t <= now)
       => (resp'.http = 400 /\ store' = store)]_vars

C7_Step ==
  /\ (Answered /\ resp'.op = "accept" /\ resp'.http = 200)
     => (resp'.id \in Ids /\ store[resp'.id].status = "pending")
  /\ (/\ Answered /\ resp.op = "accept" /\ resp'.op = "accept"
      /\ resp.id \in Ids /\ resp'.id = resp.id
      /\ resp.caller = store[resp.id].doctor /\ resp'.caller = resp.caller)
     => (/\ resp'.http = 400 /\ resp'.code = "INVALID_STATUS"
         /\ store' = store
         /\ resp.http = 200 => store'[resp.id].status = "confirmed")

\* C7: Accept answers 200 only on a pending appointment, and a second Accept
\* by the assigned doctor right after the first answers 400 INVALID_STATUS and
\* leaves the status the first one stored
C7_AcceptTwice == [][C7_Step]_vars

\* a Cancel by caller u of an active appointment must succeed exactly when
\* at least cutoff minutes remain
CancelWindowRule(cutoff) ==
  IF store[resp'.id].date - now >= cutoff
    THEN resp'.http = 200 /\ store'[resp'.id].status = "cancelled"
    ELSE resp'.http = 403 /\ store' = store

\* C8: a Cancel by the assigned patient of a pending or confirmed appointment
\* succeeds exactly when at least 24 hours remain, and otherwise answers 403
\* and changes nothing
C8_PatientCancelWindow ==
  [][(/\ Answered /\ resp'.op = "cancel" /\ resp'.id \in Ids
      /\ resp'.caller = store[resp'.id].patient
      /\ store[resp'.id].status \in ActiveStatuses)
     => CancelWindowRule(PatientCutoffHours * MinutesPerHour)]_vars

\* C9: a Cancel by the assigned doctor of a pending or confirmed appointment
\* succeeds exactly when at least 1 hour remains, and otherwise answers 403
\* and changes nothing
C9_DoctorCancelWindow ==
  [][(/\ Answered /\ resp'.op = "cancel" /\ resp'.id \in Ids
      /\ resp'.caller = store[resp'.id].doctor
      /\ store[resp'.id].status \in ActiveStatuses)
     => CancelWindowRule(DoctorCutoffHours * MinutesPerHour)]_vars

C10_Step ==
  (/\ Answered /\ resp'.op = "complete" /\ resp'.id \in Ids
   /\ resp'.caller = store[resp'.id].doctor)
  => /\ (store[resp'.id].status # "confirmed" \/ store[resp'.id].date > now)
          => (resp'.http = 400 /\ store' = store)
     /\ store[resp'.id].status # "confirmed" => resp'.code = "INVALID_STATUS"
     /\ (store[resp'.id].status = "confirmed" /\ store[resp'.id].date > now)
          => resp'.code = "FUTURE_APPOINTMENT"
     /\ resp'.http = 200
          => (store[resp'.id].status = "confirmed" /\ store[resp'.id].date <= now)

\* C10: Complete by the assigned doctor answers 400 and changes nothing when
\* the status is not confirmed or the appointment is still in the future, and
\* answers 200 only on a confirmed appointment that is not in the future
C10_CompleteGuards == [][C10_Step]_vars

C10_Witness ==
  /\ resp.op = "complete" /\ resp.code = "FUTURE_APPOINTMENT"
  /\ resp.id \in Ids /\ store[resp.id].status = "confirmed"

\* the caller is the doctor the appointment is assigned to
ByAssignedDoctor(r) ==
  r.id \in Ids /\ r.caller = store[r.id].doctor /\ RoleOf(r.caller) = "doctor"

C11_Step ==
  /\ (/\ Answered /\ resp'.op = "accept" /\ ByAssignedDoctor(resp')
      /\ resp.op = "book" /\ resp.http = 201 /\ resp.id = resp'.id
      /\ resp.t > now)
     => (resp'.http = 200 /\ store'[resp'.id].status = "confirmed")
  /\ (/\ Answered /\ resp'.op = "book" /\ RoleOf(resp'.caller) = "patient"
      /\ resp'.t > now
      /\ \E i \in Ids : /\ store[i].doctor = resp'.doctor
                         /\ store[i].status = "confirmed"
                         /\ store[i].patient # resp'.caller
                         /\ resp'.t = store[i].date + 20)
     => (resp'.http = 409 /\ store' = store)
  /\ (/\ Answered /\ resp'.op = "complete" /\ ByAssignedDoctor(resp')
      /\ store[resp'.id].status = "confirmed"
      /\ now = store[resp'.id].date + 60)
     => (/\ resp'.http = 200
         /\ store'[resp'.id].status = "completed"
         /\ store'[resp'.id].completedAt = now)

\* C11: the scenario step by step: the assigned doctor's Accept right after
\* the booking of a future slot T stores confirmed; a Book by another patient
\* for the same doctor at T+20min then answers 409 and creates nothing; a
\* Complete by the doctor at now = T+60min answers 200, stores completed and
\* sets completedAt
C11_Scenario == [][C11_Step]_vars

\* the second and third steps of the scenario alone, for the schema whose
\* enum holds "confirmed"
C11_Part000Step ==
  (/\ schema = SchemaPart000
   /\ Answered /\ resp'.op = "complete" /\ ByAssignedDoctor(resp')
   /\ store[resp'.id].status = "confirmed"
   /\ now = store[resp'.id].date + 60)
  => store'[resp'.id].completedAt = now

C11_Part000 == [][C11_Part000Step]_vars

\* the text the handler records for a supplied reason
RecordedReasons == {IF r = NoText THEN "No reason provided" ELSE r : r \in Reasons}

\* C12: a Cancel that answers 200 leaves the stored appointment with status
\* cancelled, cancelledBy the caller's role and cancellationReason the supplied
\* reason or the default text
C12_CancelRecords ==
  [][(Answered /\ resp'.op = "cancel" /\ resp'.http = 200)
       => (/\ resp'.id \in Ids
           /\ store'[resp'.id].status = "cancelled"
           /\ store'[resp'.id].cancelledBy = RoleOf(resp'.caller)
           /\ store'[resp'.id].cancellationReason \in RecordedReasons)]_vars

\* C13: an Accept by the assigned doctor of a pending appointment whose date
\* is already before the clock reading does not answer 200 and leaves the
\* store as it was
C13_AcceptPastRejected ==
  [][(/\ Answered /\ resp'.op = "accept" /\ ByAssignedDoctor(resp')
      /\ store[resp'.id].status = "pending"
      /\ store[resp'.id].date < now)
     => (resp'.http # 200 /\ store' = store)]_vars

\* another pending or confirmed appointment of the same doctor within 30
\* minutes of appointment i
OtherActiveNear(i) ==
  \E j \in Ids : /\ j # i
                 /\ store[j].doctor = store[i].doctor
                 /\ store[j].status \in ActiveStatuses
                 /\ Abs(store[j].date - store[i].date) <= WindowMinutes

\* C14: an Accept by the assigned doctor of a pending appointment answers 409
\* and leaves the store as it was whenever the doctor has another pending or
\* confirmed appointment within 30 minutes of it
C14_AcceptConflict ==
  [][(/\ Answered /\ resp'.op = "accept" /\ ByAssignedDoctor(resp')
      /\ store[resp'.id].status = "pending"
      /\ OtherActiveNear(resp'.id))
     => (resp'.http = 409 /\ store' = store)]_vars

SpecStatuses == {"pending", "confirmed", "cancelled", "completed"}

C15_Step ==
  /\ (/\ Answered /\ resp'.op = "accept" /\ ByAssignedDoctor(resp')
      /\ store[resp'.id].status = "pending"
      /\ store[resp'.id].date > now
      /\ ~OtherActiveNear(resp'.id))
     => (/\ resp'.http = 200 /\ store'[resp'.id].status = "confirmed"
         /\ AcceptPatch.status \in StatusEnum(schema))
  /\ \A i \in 1..Len(store') : store'[i].status \in SpecStatuses

\* C15: an Accept by the assigned doctor of a pending, future appointment
\* with no other active appointment of the doctor within 30 minutes answers
\* 200 and stores confirmed; every stored status is one of pending, confirmed,
\* cancelled, completed; the status Accept assigns is in the schema's enum
C15_AcceptConfirms == [][C15_Step]_vars

\* the step is the answer to Book(u, d, t, pu)
BookStep(u, d, t, pu) ==
  /\ Answered /\ resp'.op = "book"
  /\ resp'.caller = u /\ resp'.doctor = d /\ resp'.t = t
  /\ Book(u, d, t, pu, NoText)

C16_Step ==
  \A pu \in AccessPurposes :
    BookStep(resp'.caller, resp'.doctor, resp'.t, pu) =>
      /\ resp'.http = 201 =>
           /\ RoleOf(resp'.caller) = "patient"
           /\ Len(store') = Len(store) + 1
           /\ SubSeq(store', 1, Len(store)) = store
           /\ store'[Len(store')].status = "pending"
           /\ store'[Len(store')].patient = resp'.caller
           /\ store'[Len(store')].purpose =
                (IF pu = NoText THEN "General Consultation" ELSE pu)
           /\ store'[Len(store')].notes = NoText
      /\ resp'.http # 201 => store' = store
      /\ RoleOf(resp'.caller) # "patient" => resp'.http = 403

\* C16: a Book answers 201 only for a caller whose role is patient and then
\* adds exactly one appointment, with status pending, the caller as patient,
\* the supplied purpose or the default one, and no notes; a Book by any other
\* role answers 403 and adds nothing
C16_BookCreates == [][C16_Step]_vars

C16_Witness ==
  /\ resp.op = "book" /\ resp.http = 403 /\ RoleOf(resp.caller) # "patient"
  /\ \E i \in Ids : store[i].purpose = "Checkup" /\ store[i].status = "pending"

C17_Step ==
  /\ (Answered /\ resp'.op = "book" /\ resp'.doctor \notin Doctors)
     => (resp'.http # 201 /\ store' = store)
  /\ \A i \in 1..Len(store') :
        RoleOf(store'[i].doctor) = "doctor" /\ RoleOf(store'[i].patient) = "patient"

\* C17: every stored appointment names a doctor whose role is doctor and a
\* patient whose role is patient, and a Book whose doctorId is not the id of a
\* doctor does not answer 201 and adds nothing
C17_RoleCorrectReferences == [][C17_Step]_vars

C18_Step ==
  (Answered /\ resp'.id \in Ids) =>
    /\ (resp'.op \in {"accept", "complete"} /\ resp'.caller # store[resp'.id].doctor)
         => (resp'.http = 403 /\ store' = store)
    /\ (resp'.op = "cancel" /\ resp'.caller \notin Participants(store[resp'.id]))
         => (resp'.http = 403 /\ store' = store)

MayRead(u, i) == u \in Participants(store[i]) \/ RoleOf(u) = "admin"

C19_Step ==
  (Answered /\ resp'.op = "get") =>
    /\ store' = store
    /\ resp'.id \notin Ids => resp'.data = <<>>
    /\ resp'.id \in Ids =>
         IF MayRead(resp'.caller, resp'.id)
           THEN /\ resp'.http = 200
                /\ Len(resp'.data) = 1
                /\ resp'.data[1].patient = store[resp'.id].patient
                /\ resp'.data[1].doctor = store[resp'.id].doctor
                /\ resp'.data[1].status = store[resp'.id].status
           ELSE resp'.http = 403 /\ resp'.data = <<>>

\* C19: Get-one answers 200 with the appointment to its patient, its doctor
\* and an admin, answers 403 without appointment data to every other caller,
\* and never changes the store
C19_GetOneReaders == [][C19_Step]_vars

C19_Witness ==
  /\ resp.op = "get" /\ resp.http = 403 /\ resp.id \in Ids
  /\ ~MayRead(resp.caller, resp.id)
  /\ store[resp.id].status = "cancelled"

\* C20: no step changes the patient or the doctor of a stored appointment or
\* its place in the store (its id); appointments are only ever added
C20_IdentityImmutable ==
  [][/\ Len(store') >= Len(store)
     /\ \A i \in Ids : /\ store'[i].patient = store[i].patient
                       /\ store'[i].doctor = store[i].doctor]_vars

C20_Witness ==
  \E i, j \in Ids : store[i].status = "completed" /\ store[j].status = "cancelled"

\* C21: no step removes an appointment: every id present before a step is
\* present after it
C21_NeverDeleted == [][\A i \in Ids : i \in 1..Len(store')]_vars

C21_Witness ==
  /\ Len(store) >= 2
  /\ resp.op = "cancel" /\ resp.http = 200
  /\ resp.id \in Ids /\ store[resp.id].status = "cancelled"

\* C22: a stored appointment carries cancelledBy or cancellationReason only
\* while its status is cancelled, also after a Cancel interleaved with an
\* Accept or a Complete on the same appointment
C22_CancellationFieldsOnlyIfCancelled ==
  \A i \in Ids :
    (store[i].cancelledBy # NoText \/ store[i].cancellationReason # NoText)
      => store[i].status = "cancelled"

\* a Cancel and an Accept of one appointment both saved, the Accept last
C22_Witness ==
  \E p, q \in Procs :
    /\ inflight[p].op = "cancel" /\ inflight[p].stage = "done" /\ inflight[p].http = 200
    /\ inflight[q].op = "accept" /\ inflight[q].stage = "done" /\ inflight[q].http = 200
    /\ inflight[p].id = inflight[q].id
    /\ store[inflight[p].id].status = "confirmed"

\* C23: a stored appointment has completedAt set exactly when its status is
\* completed, also after a Complete interleaved with a Cancel
C23_CompletedAtIffCompleted ==
  \A i \in Ids : (store[i].completedAt # Unset) <=> (store[i].status = "completed")

\* the step is the answer to Complete(u, id, notes, prescription)
CompleteStep(u, id, notes, prescription) ==
  /\ Answered /\ resp'.op = "complete"
  /\ resp'.caller = u /\ resp'.id = id
  /\ Complete(u, id, notes, prescription)

\* the value a merge of an optional text leaves
Merged(supplied, before) == IF supplied = NoText THEN before ELSE supplied

C24_Step ==
  \A n \in Texts :
    (CompleteStep(resp'.caller, resp'.id, n, n) /\ resp'.http = 200) =>
      /\ store'[resp'.id].status = "completed"
      /\ store'[resp'.id].completedAt = now
      /\ store'[resp'.id].notes = Merged(n, store[resp'.id].notes)
      /\ store'[resp'.id].prescription = Merged(n, store[resp'.id].prescription)

\* C24: a Complete that answers 200 stores status completed and completedAt =
\* the clock reading, and stores for notes and for prescription the supplied
\* value, or the value held before when none is supplied
C24_CompleteRecords == [][C24_Step]_vars

\* the same for the two texts alone
C24_TextsStep ==
  \A n \in Texts :
    (CompleteStep(resp'.caller, resp'.id, n, n) /\ resp'.http = 200) =>
      /\ store'[resp'.id].notes = Merged(n, store[resp'.id].notes)
      /\ store'[resp'.id].prescription = Merged(n, store[resp'.id].prescription)

C24_Texts == [][C24_TextsStep]_vars

C25_Step ==
  /\ \A i \in Ids :
        (\/ store'[i].notes # store[i].notes
         \/ store'[i].prescription # store[i].prescription)
        => (Answered /\ resp'.op = "complete" /\ resp'.id = i)
  /\ \A i \in 1..Len(store') :
        i \notin Ids => (store'[i].notes = NoText /\ store'[i].prescription = NoText)

\* C25: notes and prescription of a stored appointment change only in a
\* Complete of that appointment: Accept and Cancel leave them as they were and
\* a Book stores no notes and no prescription, whatever notes it is given
C25_TextsOnlyByComplete == [][C25_Step]_vars

C25_Witness ==
  /\ resp.op = "cancel" /\ resp.http = 200
  /\ \E j \in Ids : store[j].status = "completed"

\* appointment i is the caller's own in the view of the caller's role
OwnedBy(u, i) ==
  IF RoleOf(u) = "patient" THEN store[i].patient = u ELSE store[i].doctor = u

C26_Step ==
  (Answered /\ resp'.op = "list") =>
    /\ resp'.http # 200 => resp'.data = <<>>
    /\ \A k \in 1..Len(resp'.data) :
          /\ resp'.data[k].id \in Ids
          /\ OwnedBy(resp'.caller, resp'.data[k].id)
          /\ resp'.data[k].doc.patient = store[resp'.data[k].id].patient
          /\ resp'.data[k].doc.doctor = store[resp'.data[k].id].doctor

ListStep(u, status, from, to) ==
  /\ Answered /\ resp'.op = "list" /\ resp'.caller = u
  /\ ListMine(u, RoleOf(u), status, from, to)

\* the day of t lies in the days from .. to, an absent bound being open
InDays(t, from, to) ==
  /\ from # Unset => t \div MinutesPerDay >= from \div MinutesPerDay
  /\ to # Unset => t \div MinutesPerDay <= to \div MinutesPerDay

C27_Step ==
  \A status \in ListStatuses, from \in ListBounds, to \in ListBounds :
    (ListStep(resp'.caller, status, from, to) /\ resp'.http = 200) =>
      {resp'.data[k].id : k \in 1..Len(resp'.data)}
        = {i \in Ids : /\ OwnedBy(resp'.caller, i)
                       /\ status # NoText => store[i].status = status
                       /\ InDays(store[i].date, from, to)}

\* C27: with date-only bounds a list-mine returns exactly the caller's
\* appointments (of the asked status) whose date falls on a day from the from
\* day to the to day, both days counted whole
C27_WholeDayBounds == [][C27_Step]_vars

\* C28: every request, once received, is answered in the end, also when a
\* store call or a transaction step of it fails
C28_EveryRequestAnswered ==
  \A p \in Procs : (inflight[p].stage # "idle") ~> (inflight[p].stage = "idle")

\* the same for the handlers of routes/appointments.js alone
C28_RouterAnswers ==
  \A p \in Procs :
    (inflight[p].stage # "idle" /\ inflight[p].op # "txbook")
      ~> (inflight[p].stage = "idle")

\* the document created by the step
Created == store'[Len(store')]

C29_Step ==
  \A pu \in Purposes :
    (BookStep(resp'.caller, resp'.doctor, resp'.t, pu) /\ resp'.http = 201) =>
      /\ Created.date = resp'.t
      /\ DocView(schema, Created).date = JsDate(resp'.t)

\* C29: the scheduledAt stored by a successful Book, and the value a later
\* read of the document yields, is the requested instant with its time of
\* day, so that bookings on one day keep their distinct slots
C29_InstantPreserved == [][C29_Step]_vars

\* appointments i and j occupy slots 30 minutes or less apart
SlotsCollide(i, j) ==
  /\ i # j
  /\ store[i].doctor = store[j].doctor
  /\ store[i].status \in ActiveStatuses
  /\ store[j].status \in ActiveStatuses
  /\ Abs(store[i].date - store[j].date) <= WindowMinutes

\* C30: with the handlers run one at a time, no two distinct pending or
\* confirmed appointments of one doctor have scheduledAt values 30 minutes
\* or less apart
C30_NoCloseActivePair == \A i \in Ids, j \in Ids : ~SlotsCollide(i, j)

\* the pending or confirmed appointments of doctor d at most 30 minutes from t
Blockers(d, t) ==
  {i \in Ids : /\ store[i].doctor = d
               /\ store[i].status \in ActiveStatuses
               /\ Abs(store[i].date - t) <= WindowMinutes}

C31_Step ==
  \A pu \in Purposes :
    (/\ BookStep(resp'.caller, resp'.doctor, resp'.t, pu)
     /\ RoleOf(resp'.caller) = "patient"
     /\ resp'.t >= now)
    => /\ resp'.http = 409 <=> Blockers(resp'.doctor, resp'.t) # {}
       /\ resp'.http = 409 =>
            \E c \in Blockers(resp'.doctor, resp'.t) :
              /\ Len(resp'.data) = 1
              /\ resp'.data[1].id = c
              /\ resp'.data[1].date.t = store[c].date
              /\ resp'.data[1].patient = store[c].patient

AcceptOps == {"accept", "gaccept"}

\* request p is an Accept of a doctor received in this step
AcceptReceived(p) ==
  /\ inflight[p].stage = "idle"
  /\ inflight'[p].op \in AcceptOps
  /\ RoleOf(inflight'[p].caller) = "doctor"

\* request p is answered in this step with status http
AnsweredWith(p, http) == inflight'[p].stage = "done" /\ inflight'[p].http = http

C32_Step ==
  \A p \in Procs :
    AcceptReceived(p) =>
      LET id == inflight'[p].id
          u == inflight'[p].caller
      IN /\ id \notin Ids => AnsweredWith(p, 404)
         /\ (id \in Ids /\ store[id].doctor # u) => AnsweredWith(p, 403)
         /\ (id \in Ids /\ store[id].doctor = u /\ store[id].status # "pending")
              => AnsweredWith(p, 400)

\* C32: an Accept by a doctor answers 404 for an id of no appointment, 403
\* for an appointment of another doctor whatever its status, and 400 for a
\* non-pending appointment of the calling doctor
C32_AcceptCheckOrder == [][C32_Step]_vars

C32_RouterStep ==
  \A p \in Procs : (AcceptReceived(p) /\ inflight'[p].op = "accept") =>
    LET id == inflight'[p].id
        u == inflight'[p].caller
    IN /\ id \notin Ids => AnsweredWith(p, 404)
       /\ (id \in Ids /\ store[id].doctor # u) => AnsweredWith(p, 403)
       /\ (id \in Ids /\ store[id].doctor = u /\ store[id].status # "pending")
            => AnsweredWith(p, 400)

\* the same for the handler of routes/appointments.js alone
C32_RouterCheckOrder == [][C32_RouterStep]_vars

\* request p runs its findOneAndUpdate in this step
GuardedWrite(p) ==
  /\ inflight[p].op = "gaccept"
  /\ inflight[p].stage = "cleared"
  /\ inflight'[p].stage = "done"

C33_Step ==
  \A p \in Procs :
    GuardedWrite(p) =>
      LET id == inflight[p].id
      IN /\ store[id].status # "pending" =>
              /\ store' = store
              /\ inflight'[p].http \in {404, 500}
         /\ inflight'[p].http = 200 =>
              /\ store[id].status = "pending"
              /\ store'[id].status = "confirmed"

\* two requests in flight that both report a successful conditional Accept
\* of one appointment
BothAccepted(p, q) ==
  /\ p # q
  /\ inflight[p].op = "gaccept" /\ inflight[p].stage = "done" /\ inflight[p].http = 200
  /\ inflight[q].op = "gaccept" /\ inflight[q].stage = "done" /\ inflight[q].http = 200
  /\ inflight[p].id = inflight[q].id

\* C33: the conditional update of Accept writes confirmed only onto an
\* appointment that is still pending when the write runs; otherwise the
\* request fails and the store keeps the status the competing request wrote;
\* of the concurrent Accepts of one appointment at most one succeeds
C33_GuardedAccept ==
  /\ [][C33_Step]_vars
  /\ [](\A p, q \in Procs : ~BothAccepted(p, q))

\* one conditional Accept succeeded and a concurrent one of the same
\* appointment, which had loaded it as pending, was answered 404
C33_Witness ==
  \E p, q \in Procs :
    /\ schema = SchemaPart000
    /\ inflight[p].op = "gaccept" /\ inflight[p].stage = "done" /\ inflight[p].http = 200
    /\ inflight[q].op = "gaccept" /\ inflight[q].stage = "done" /\ inflight[q].http = 404
    /\ inflight[q].id = inflight[p].id
    /\ inflight[q].seen = "pending"
    /\ inflight[q].caller = store[inflight[q].id].doctor
    /\ store[inflight[q].id].status = "confirmed"

C34_Step ==
  (Answered /\ resp'.op = "status" /\ resp'.id \in Ids) =>
    /\ resp'.http = 200 => store[resp'.id].status = "pending"
    /\ store[resp'.id].status # "pending" => store' = store /\ resp'.http # 200

\* C34: updateAppointmentStatus changes the status only of an appointment
\* that is pending, and rejects the change for one that is already accepted,
\* rejected, cancelled or completed
C34_StatusUpdateFromPending == [][C34_Step]_vars

ErrorStatuses == {400, 403, 404, 409, 500}
WritingOps == {"book", "accept", "cancel", "complete"}

C35_Step ==
  (Answered /\ resp'.op \in WritingOps /\ resp'.http \in ErrorStatuses) => store' = store

\* C35: a Book, Accept, Cancel or Complete answered with an error status
\* leaves the store as it was; a Book answered 400 for an invalid doctor or
\* patient reference leaves no new appointment
C35_ErrorsLeaveStore == [][C35_Step]_vars

\* no Accept is answered 409
C36_Step == (Answered /\ resp'.op = "accept") => resp'.http # 409

\* the conflict query of an Accept of appointment i would find a document
AcceptWouldConflict(i) ==
  /\ store[i].status = "pending"
  /\ checkTimeSlotConflict(store, store[i].doctor, store[i].date, i) # 0

\* the first half alone: no Accept is answered 409
C36_Never409 == [][C36_Step]_vars

FreesSlot(t) ==
  /\ Answered /\ resp'.op = "cancel" /\ resp'.http = 200
  /\ t >= now
  /\ Blockers(store[resp'.id].doctor, t) = {resp'.id}

C37_Step ==
  \A t \in SlotTimes, u \in SlotBookers :
    FreesSlot(t) =>
      BookDecision(store', u, store[resp'.id].doctor, t, now').http # 409

\* C37: once the only pending or confirmed appointment that made a Book for
\* doctor D at a future time T conflict is cancelled, a Book for D at T is no
\* longer answered 409
C37_CancelFreesSlot == [][C37_Step]_vars

\* a Cancel has just succeeded on an appointment that was within 30 minutes of
\* a future slot, and nothing blocks that slot now
C37_Witness ==
  /\ resp.op = "cancel" /\ resp.http = 200
  /\ store[resp.id].status = "cancelled"
  /\ \E t \in SlotTimes :
       /\ t >= now
       /\ Abs(store[resp.id].date - t) <= WindowMinutes
       /\ Blockers(store[resp.id].doctor, t) = {}

\* the appointment a successful Book creates is scheduled no earlier than the
\* clock reading of the booking
C38_BookStep ==
  (Answered /\ resp'.op = "book" /\ resp'.http = 201) => store'[Len(store')].date >= now

C38_Completed ==
  \A i \in Ids : store[i].status = "completed" => store[i].completedAt >= store[i].date

\* C38: every completed appointment has completedAt at or after its
\* scheduledAt, and an appointment's scheduledAt is at or after the time at
\* which it was booked
C38_TimesOrdered == [][C38_BookStep]_vars /\ []C38_Completed

====
